---------------------------- MODULE Spec2Model ----------------------------
(***************************************************************************)
(* Model of src/pages/index.tsx.                                           *)
(*                                                                         *)
(* Two programs live in that file:                                         *)
(*   - Home, the client component: the edit / share / error flags and the  *)
(*     promise chain that share() hangs on the save request                *)
(*     (specification Spec);                                               *)
(*   - getStaticProps, the server-side preview resolution against the S3   *)
(*     bucket (specification PreviewSpec).                                 *)
(* What Home renders for given props, and the payload share() collects     *)
(* from the rendered document, are functions of the props and of the       *)
(* document alone; they are checked under specification RenderSpec.        *)
(*                                                                         *)
(* The browser runs one task at a time: a user event handler, or the       *)
(* settlement of a network promise followed by every promise reaction it   *)
(* makes runnable (the microtask queue is drained before the next task).   *)
(* Each such task is one action below.                                     *)
(***************************************************************************)
EXTENDS Naturals, Sequences, FiniteSets

\* ------------------------------------------------------------------ bounds

\* Number of save requests a behaviour may issue.
MaxRequests == 3

\* Number of regions whose text the user has changed since the page was rendered.
MaxTyped == 1

\* ------------------------------------------------------------ value spaces

\* JavaScript null for a string-valued state (useState(null) of the snapshot id).
Null == "<null>"

\* JavaScript undefined for a string-valued property.
Undefined == "<undefined>"

\* Snapshot ids the save endpoint may answer with / a preview cookie may carry.
SnapshotIds == {"s1", "s2"}

\* Plain-text bodies of non-success save responses.
ErrorTexts == {"StorageWriteError"}

\* useState<Error>(null): the null error.
NullError == [name |-> "null", message |-> ""]

\* new Error(text), line 110.
NewError(text) == [name |-> "Error", message |-> text]

\* What fetch rejects with when the request does not reach the server.
NetworkError == [name |-> "TypeError", message |-> "Failed to fetch"]

\* What res.json() rejects with when the body is not readable JSON.
BodyError == [name |-> "SyntaxError", message |-> "Unexpected end of JSON input"]

\* Responses of POST /api/save as the client sees them: a success status whose
\* body holds {snapshotId}, or a non-success status with a plain-text body.
Responses ==
  [ok : {TRUE}, snapshotId : SnapshotIds, text : {""}]
    \cup [ok : {FALSE}, snapshotId : {Null}, text : ErrorTexts]

NoResponse == [ok |-> FALSE, snapshotId |-> Null, text |-> ""]

\* Stages of the promise chain of one share() call (lines 101-121):
\*   fetch     the fetch promise is pending
\*   json      res.json() is pending (first then saw res.ok)
\*   text      res.text() is pending inside the executor of line 109
\*   orphaned  the promise of line 109 can no longer be settled
\*   done      finally has run
Pending == {"fetch", "json", "text"}

VARIABLES
  currentSnapshotId,  \* useState(null), line 70
  isEdit,             \* useState(false), line 73
  hasSaveRequest,     \* useRef(false).current, line 77
  isSharingView,      \* useState(false), line 78
  currentError,       \* useState<Error>(null), line 87
  requests,           \* the save requests issued so far, in order
  accepted,           \* number of share() calls that passed the guard
  lastOp,             \* the task that ran last
  bucket,             \* S3 bucket: key -> stored body
  gsp,                \* input and result of the last getStaticProps call
  page,               \* props, edit flag and output of the last Home render
  dom,                \* the elements of the rendered page content, in page order
  payload             \* persistContents collected from the document as it stands

clientVars ==
  <<currentSnapshotId, isEdit, hasSaveRequest, isSharingView, currentError,
    requests, accepted, lastOp>>

serverVars == <<bucket, gsp>>

pageVars == <<page, dom, payload>>

vars == <<clientVars, serverVars, pageVars>>

\* ------------------------------------------------------- Home: the client

\* One save request as the client tracks it: the stage of its promise chain and
\* the response fetch resolved with (NoResponse until then, and again once the
\* chain has nothing left to run).
NewRequest == [stage |-> "fetch", resp |-> NoResponse]

Settled(stage) == [stage |-> stage, resp |-> NoResponse]

\* The requests whose network I/O is still pending.
InFlight == {r \in 1..Len(requests) : requests[r].stage \in Pending}

\* toggleEdit, line 74: setEdit(!isEdit).
ToggledEdit(edit) == ~edit

\* Mutant of ClearedSnapshot: the dismissal leaves an (empty-string) id behind
\* instead of null.
ClearedSnapshot_NotNull == ""

\* clearSnapshot, line 71: setSnapshotId(null).
ClearedSnapshot == Null

\* onClearError, lines 88-90: setError(null).
ClearedError == NullError

\* Mutant of ShareReturnsEarly: the guard is never consulted.
ShareReturnsEarly_Never(saveRequest) == FALSE

\* share, line 93: if (hasSaveRequest.current) return;
ShareReturnsEarly(saveRequest) == saveRequest

\* Mutant of IssuedBy: the fetch is made before the guard is looked at.
IssuedBy_BeforeGuard(returnedEarly) == <<NewRequest>>

\* share, lines 93 and 101-106: the fetch calls one share() makes. The early
\* return precedes the fetch, so a suppressed share() makes none.
IssuedBy(returnedEarly) == IF returnedEarly THEN <<>> ELSE <<NewRequest>>

\* share, lines 107-112, the first then: res.json() on res.ok, otherwise the
\* promise whose executor awaits res.text().
FirstThen(resp) == IF resp.ok THEN "json" ELSE "text"

\* Mutant of ThenSnapshotId: the body's snapshotId is not picked up.
ThenSnapshotId_Dropped(resp) == Null

\* share, lines 113-115, the second then: setSnapshotId(snapshotId) of the body.
ThenSnapshotId(resp) == resp.snapshotId

\* share, lines 116-118, catch: setError(err).
CaughtError(err) == err

\* Mutant of FinallySharing: finally leaves the guard set.
FinallySharing_Stuck == TRUE

\* share, lines 119-121, finally: setSharing(false).
FinallySharing == FALSE

\* Mutant of SetSharing: only the ref is written.
SetSharing_RefOnly(sharing) ==
  /\ hasSaveRequest' = sharing
  /\ UNCHANGED isSharingView

\* setSharing, lines 79-85: writes the ref and the view flag together.
SetSharing(sharing) ==
  /\ hasSaveRequest' = sharing
  /\ isSharingView' = sharing

\* JavaScript truthiness of a string-valued state, as in `currentSnapshotId &&`
\* (line 143).
Truthy(v) == v \notin {Null, Undefined, ""}

\* Mutant of ToggleEdit: cancelling also abandons the pending save, whose
\* completion handlers then never run.
ToggleEdit_AbortsSave ==
  /\ isEdit' = ~isEdit
  /\ requests' = [r \in 1..Len(requests) |->
                    IF requests[r].stage \in Pending
                      THEN [stage |-> "done", resp |-> NoResponse]
                      ELSE requests[r]]
  /\ lastOp' = "toggleEdit"
  /\ UNCHANGED <<currentSnapshotId, hasSaveRequest, isSharingView, currentError,
                 accepted, serverVars, pageVars>>

\* Mutant of ToggleEdit: cancelling also resets the sharing guard.
ToggleEdit_ResetsGuard ==
  /\ isEdit' = ~isEdit
  /\ hasSaveRequest' = FALSE
  /\ isSharingView' = FALSE
  /\ lastOp' = "toggleEdit"
  /\ UNCHANGED <<currentSnapshotId, currentError, requests, accepted,
                 serverVars, pageVars>>

\* The Edit button or the Snapshot bar's cancel (lines 175-185): toggleEdit.
ToggleEdit ==
  /\ isEdit' = ToggledEdit(isEdit)
  /\ lastOp' = "toggleEdit"
  /\ UNCHANGED <<currentSnapshotId, hasSaveRequest, isSharingView, currentError,
                 requests, accepted, serverVars, pageVars>>

\* The Snapshot bar's share button (rendered when isEdit, line 175): share().
Share ==
  /\ isEdit
  /\ LET early == ShareReturnsEarly(hasSaveRequest)
         calls == IssuedBy(early)
     IN  /\ Len(requests) + Len(calls) <= MaxRequests
         /\ requests' = requests \o calls
         /\ IF early
              THEN /\ lastOp' = "shareSuppressed"
                   /\ UNCHANGED <<hasSaveRequest, isSharingView, accepted>>
              ELSE /\ SetSharing(TRUE)
                   /\ accepted' = accepted + 1
                   /\ lastOp' = "share"
  /\ UNCHANGED <<currentSnapshotId, isEdit, currentError, serverVars, pageVars>>

\* ShareLinkDialog's onExit (rendered when currentSnapshotId, line 143).
ClearSnapshot ==
  /\ Truthy(currentSnapshotId)
  /\ currentSnapshotId' = ClearedSnapshot
  /\ lastOp' = "clearSnapshot"
  /\ UNCHANGED <<isEdit, hasSaveRequest, isSharingView, currentError,
                 requests, accepted, serverVars, pageVars>>

\* ErrorDialog's onExit (rendered when currentError, line 134).
OnClearError ==
  /\ currentError # NullError
  /\ currentError' = ClearedError
  /\ lastOp' = "onClearError"
  /\ UNCHANGED <<currentSnapshotId, isEdit, hasSaveRequest, isSharingView,
                 requests, accepted, serverVars, pageVars>>

\* fetch rejects (the request did not reach the server): both then handlers are
\* skipped, catch and finally run.
FetchRejected(r) ==
  /\ requests[r].stage = "fetch"
  /\ currentError' = CaughtError(NetworkError)
  /\ SetSharing(FinallySharing)
  /\ requests' = [requests EXCEPT ![r] = Settled("done")]
  /\ lastOp' = "fetchRejected"
  /\ UNCHANGED <<currentSnapshotId, isEdit, accepted, serverVars, pageVars>>

\* fetch resolves with a response: the first then starts reading the body.
FetchResolved(r, resp) ==
  /\ requests[r].stage = "fetch"
  /\ requests' = [requests EXCEPT ![r] = [stage |-> FirstThen(resp), resp |-> resp]]
  /\ lastOp' = "fetchResolved"
  /\ UNCHANGED <<currentSnapshotId, isEdit, hasSaveRequest, isSharingView,
                 currentError, accepted, serverVars, pageVars>>

\* res.json() resolves with {snapshotId}: second then, then finally.
JsonResolved(r) ==
  /\ requests[r].stage = "json"
  /\ currentSnapshotId' = ThenSnapshotId(requests[r].resp)
  /\ SetSharing(FinallySharing)
  /\ requests' = [requests EXCEPT ![r] = Settled("done")]
  /\ lastOp' = "jsonResolved"
  /\ UNCHANGED <<isEdit, currentError, accepted, serverVars, pageVars>>

\* res.json() rejects (the body cannot be read as JSON): catch, then finally.
JsonRejected(r) ==
  /\ requests[r].stage = "json"
  /\ currentError' = CaughtError(BodyError)
  /\ SetSharing(FinallySharing)
  /\ requests' = [requests EXCEPT ![r] = Settled("done")]
  /\ lastOp' = "jsonRejected"
  /\ UNCHANGED <<currentSnapshotId, isEdit, accepted, serverVars, pageVars>>

\* res.text() resolves: the executor calls reject(new Error(text)); catch, then
\* finally.
TextResolved(r) ==
  /\ requests[r].stage = "text"
  /\ currentError' = CaughtError(NewError(requests[r].resp.text))
  /\ SetSharing(FinallySharing)
  /\ requests' = [requests EXCEPT ![r] = Settled("done")]
  /\ lastOp' = "textResolved"
  /\ UNCHANGED <<currentSnapshotId, isEdit, accepted, serverVars, pageVars>>

\* res.text() rejects: the await throws inside the async executor of line 109
\* before reject is called. The Promise constructor ignores the promise an
\* async executor returns, so the promise of line 109 is never settled and
\* neither catch nor finally ever runs.
TextRejected(r) ==
  /\ requests[r].stage = "text"
  /\ requests' = [requests EXCEPT ![r] = Settled("orphaned")]
  /\ lastOp' = "textRejected"
  /\ UNCHANGED <<currentSnapshotId, isEdit, hasSaveRequest, isSharingView,
                 currentError, accepted, serverVars, pageVars>>

\* ------------------------------------------- getStaticProps: the server

\* A FieldEdit as share() posts it and the bucket stores it.
FieldEdits == [id : {"title"}, innerText : {"Hello"}]

\* The FieldEdit sequences a stored snapshot may hold.
EditSeqs == {<<>>} \cup {<<e>> : e \in FieldEdits}

\* object.Body.toString(), by what JSON.parse makes of the text: a JSON array
\* of FieldEdits, some other JSON value (an object, a number), or text that is
\* not JSON at all.
Bodies ==
  [json : {"array"}, edits : EditSeqs]
    \cup [json : {"other", "invalid"}, edits : {<<>>}]

\* No object under the key.
NoObject == [json |-> "missing", edits |-> <<>>]

\* Template literal conversion of ${snapshotId}, line 40.
ToString(v) == IF v = Undefined THEN "undefined" ELSE v

\* Key: `${snapshotId}.json`, line 40.
KeyOf(snapshotId) == ToString(snapshotId) \o ".json"

Keys == {KeyOf(s) : s \in SnapshotIds}

Buckets == [Keys -> Bodies \cup {NoObject}]

\* HTTP status the private bucket answers a missing (or forbidden) key with,
\* and the status line 56 tests for.
Forbidden == 403

\* Errors a getObject call may fail with regardless of the bucket's content: an
\* AWS error carrying a statusCode, or a connection error carrying none.
NoStatus == [hasStatusCode |-> FALSE, statusCode |-> 0]

AwsError(status) == [hasStatusCode |-> TRUE, statusCode |-> status]

Faults == {AwsError(Forbidden), AwsError(500), NoStatus}

NoFault == [hasStatusCode |-> FALSE, statusCode |-> 200]

\* previewData: null / undefined, or the object the preview cookie carries
\* (with or without a snapshotId property).
NoPreviewData == [present |-> FALSE, snapshotId |-> Undefined]

PreviewDatas ==
  {NoPreviewData} \cup [present : {TRUE}, snapshotId : SnapshotIds \cup {Undefined}]

\* s3.getObject(...).promise(), lines 37-42.
GetObject(store, key, fault) ==
  IF fault # NoFault
    THEN [failed |-> TRUE, error |-> fault, Body |-> NoObject]
  ELSE IF key \notin DOMAIN store \/ store[key] = NoObject
    THEN [failed |-> TRUE, error |-> AwsError(Forbidden), Body |-> NoObject]
  ELSE [failed |-> FALSE, error |-> NoFault, Body |-> store[key]]

NoContents == [kind |-> "absent", edits |-> <<>>]

\* JSON.parse(text), line 44: throws a SyntaxError (no statusCode) on text that
\* is not JSON, and returns whatever JSON value the text denotes otherwise.
JSONParse(body) ==
  IF body.json = "invalid"
    THEN [threw |-> TRUE, error |-> NoStatus, value |-> NoContents]
    ELSE [threw |-> FALSE, error |-> NoFault,
          value |-> [kind |-> body.json, edits |-> body.edits]]

MsgNotExist == "The requested preview edit does not exist!"

MsgConnection ==
  "An error has occurred while connecting to S3. Please refresh the page to try again."

\* Mutant of ErrorMessage: the two messages are swapped.
ErrorMessage_Swapped(e) ==
  IF e.hasStatusCode /\ e.statusCode = Forbidden THEN MsgConnection ELSE MsgNotExist

\* Lines 56-58: e.statusCode === 403 ? ... : ...
ErrorMessage(e) ==
  IF e.hasStatusCode /\ e.statusCode = Forbidden THEN MsgNotExist ELSE MsgConnection

\* Line 63: { isPreview: false }.
NormalProps ==
  [isPreview |-> FALSE, hasError |-> FALSE, message |-> Undefined,
   snapshotId |-> Undefined, contents |-> NoContents, keys |-> {"isPreview"}]

\* Lines 45-47: { isPreview: true, snapshotId, contents }.
PreviewProps(snapshotId, contents) ==
  [isPreview |-> TRUE, hasError |-> FALSE, message |-> Undefined,
   snapshotId |-> snapshotId, contents |-> contents,
   keys |-> {"isPreview", "snapshotId", "contents"}]

\* Mutant of ErrorProps: the error props keep isPreview true.
ErrorProps_StillPreview(e) ==
  [isPreview |-> TRUE, hasError |-> TRUE, message |-> ErrorMessage(e),
   snapshotId |-> Undefined, contents |-> NoContents,
   keys |-> {"isPreview", "hasError", "message"}]

\* Lines 49-60: { isPreview: false, hasError: true, message }.
ErrorProps(e) ==
  [isPreview |-> FALSE, hasError |-> TRUE, message |-> ErrorMessage(e),
   snapshotId |-> Undefined, contents |-> NoContents,
   keys |-> {"isPreview", "hasError", "message"}]

\* No props: the call raised instead of returning.
NoProps ==
  [isPreview |-> FALSE, hasError |-> FALSE, message |-> Undefined,
   snapshotId |-> Undefined, contents |-> NoContents, keys |-> {}]

\* Mutant of TakesPreviewPath: the preview flag is not tested.
TakesPreviewPath_Always(preview) == TRUE

\* Line 32: if (preview).
TakesPreviewPath(preview) == preview

\* Line 33, outside the try: const { snapshotId } = previewData. Destructuring
\* null or undefined raises a TypeError.
DestructureThrows(previewData) == ~previewData.present

\* Lines 34-61: the try / catch around the read and the parse.
ReadSnapshot(store, snapshotId, fault) ==
  LET key == KeyOf(snapshotId)
      object == GetObject(store, key, fault)
      parsed == JSONParse(object.Body)
  IN  IF object.failed
        THEN [threw |-> FALSE, props |-> ErrorProps(object.error), reads |-> <<key>>]
      ELSE IF parsed.threw
        THEN [threw |-> FALSE, props |-> ErrorProps(parsed.error), reads |-> <<key>>]
      ELSE [threw |-> FALSE, props |-> PreviewProps(snapshotId, parsed.value),
            reads |-> <<key>>]

\* getStaticProps, lines 23-64.
Resolve(preview, previewData, store, fault) ==
  IF TakesPreviewPath(preview)
    THEN IF DestructureThrows(previewData)
           THEN [threw |-> TRUE, props |-> NoProps, reads |-> <<>>]
           ELSE ReadSnapshot(store, previewData.snapshotId, fault)
    ELSE [threw |-> FALSE, props |-> NormalProps, reads |-> <<>>]

NoCall ==
  [called |-> FALSE, preview |-> FALSE, previewData |-> NoPreviewData,
   fault |-> NoFault, threw |-> FALSE, props |-> NoProps, reads |-> <<>>]

\* One page render request: Next.js calls getStaticProps with the request's
\* preview flag and preview data.
GetStaticProps(preview, previewData, fault) ==
  /\ LET res == Resolve(preview, previewData, bucket, fault)
     IN  gsp' = [called |-> TRUE, preview |-> preview, previewData |-> previewData,
                 fault |-> fault, threw |-> res.threw, props |-> res.props,
                 reads |-> res.reads]
  /\ UNCHANGED <<bucket, clientVars, pageVars>>

\* ------------------------------------------------------ Home: the render

\* The literal [] of line 124.
EmptyArray == [kind |-> "array", edits |-> <<>>]

\* Values props.contents may hold: absent, a FieldEdit array, another value.
ContentsValues ==
  {NoContents, [kind |-> "other", edits |-> <<>>]}
    \cup [kind : {"array"}, edits : EditSeqs]

\* The props Home may be rendered with: every combination of the fields the
\* render reads, not only those getStaticProps returns.
RenderProps ==
  [isPreview : BOOLEAN, hasError : BOOLEAN,
   message : {MsgNotExist, "Some other reason"},
   snapshotId : {"s1"}, contents : ContentsValues,
   keys : {{"isPreview", "hasError", "message", "snapshotId", "contents"}}]

\* Mutant of EditsOf: the contents are handed on whatever isPreview says.
EditsOf_Always(props) == props.contents

\* Line 124: const edits = props.isPreview ? props.contents : [].
EditsOf(props) == IF props.isPreview THEN props.contents ELSE EmptyArray

\* Line 150: the "Preview Mode" banner.
ShowsBanner(props) == props.isPreview \/ props.hasError

\* Lines 149-185: what Home renders. With hasError the error view shows
\* props.message and Content is not rendered (no edits are handed to it);
\* otherwise Content gets isEdit and edits. The bar below is the Snapshot bar
\* in edit mode and the Edit button otherwise.
Render(props, edit) ==
  [banner |-> ShowsBanner(props),
   view |-> IF props.hasError THEN "error" ELSE "content",
   reason |-> IF props.hasError THEN props.message ELSE Undefined,
   contentEdits |-> IF props.hasError THEN NoContents ELSE EditsOf(props),
   contentIsEdit |-> IF props.hasError THEN FALSE ELSE edit,
   bar |-> IF edit THEN "snapshot" ELSE "edit"]

NoPage ==
  [rendered |-> FALSE, props |-> NoProps, isEdit |-> FALSE,
   out |-> Render(NoProps, FALSE)]

\* The ids of the Malleable regions Content declares, in page order
\* (lines 190-356).
RegionIds ==
  <<"title",
    "feature-1-emoji", "feature-1-text", "feature-2-emoji", "feature-2-text",
    "feature-3-emoji", "feature-3-text", "feature-4-emoji", "feature-4-text",
    "title-2", "title",
    "explanation-2", "explanation-3", "explanation-4",
    "explanation-1-inspect", "explanation-1-pre-curl",
    "explanation-2", "explanation-2", "explanation-2">>

\* The text a region shows before the user types into it.
DefaultText == "<default>"

\* Texts the user may type into a region.
TypedTexts == {"Hello"}

\* The element a Malleable region puts in the document: a child of the element
\* carrying the region's id, content-editable while the region is active.
MalleableElement(id, isActive) ==
  [parentId |-> id, contentEditable |-> isActive, innerText |-> DefaultText]

\* The elements of the rendered page, in page order: Content's regions (each
\* given isActive = isEdit), or the error view's paragraph, whose parent has no
\* id.
Dom(out) ==
  IF out.view = "error"
    THEN <<[parentId |-> Undefined, contentEditable |-> FALSE,
            innerText |-> out.reason]>>
    ELSE [i \in 1..Len(RegionIds) |->
            MalleableElement(RegionIds[i], out.contentIsEdit)]

\* Line 96: document.querySelectorAll('[id] > [contenteditable=true]').
Matches(el) == el.parentId # Undefined /\ el.contentEditable

QuerySelectorAll(document) == SelectSeq(document, Matches)

\* Lines 97-99: [].slice.call(els).map(({ parentNode: { id }, innerText }) =>
\* ({ id, innerText })).
PersistContents(els) ==
  [i \in 1..Len(els) |-> [id |-> els[i].parentId, innerText |-> els[i].innerText]]

NoPayload == [collected |-> FALSE, edits |-> <<>>]

\* The regions whose text differs from what was rendered.
Typed == {i \in 1..Len(dom) : dom[i].innerText \notin {DefaultText, page.out.reason}}

\* A page load: Home is rendered with the given props and edit flag.
HomeRender(props, edit) ==
  /\ page' = [rendered |-> TRUE, props |-> props, isEdit |-> edit,
              out |-> Render(props, edit)]
  /\ dom' = Dom(Render(props, edit))
  /\ payload' = NoPayload
  /\ UNCHANGED <<clientVars, serverVars>>

\* The user types into a content-editable region.
TypeInto(i, text) ==
  /\ page.rendered
  /\ dom[i].contentEditable
  /\ Cardinality(Typed \cup {i}) <= MaxTyped
  /\ dom' = [dom EXCEPT ![i].innerText = text]
  /\ payload' = NoPayload
  /\ UNCHANGED <<page, clientVars, serverVars>>

\* share(), lines 96-99, on the page as it stands: the Snapshot bar (and so
\* the share button) is there while the page is in edit mode.
CollectEdits ==
  /\ page.rendered
  /\ page.out.bar = "snapshot"
  /\ payload' = [collected |-> TRUE,
                 edits |-> PersistContents(QuerySelectorAll(dom))]
  /\ UNCHANGED <<page, dom, clientVars, serverVars>>

\* ---------------------------------------------------------- specifications

ClientInit ==
  /\ currentSnapshotId = Null
  /\ isEdit = FALSE
  /\ hasSaveRequest = FALSE
  /\ isSharingView = FALSE
  /\ currentError = NullError
  /\ requests = <<>>
  /\ accepted = 0
  /\ lastOp = "init"

\* No page rendered yet.
PageInit ==
  /\ page = NoPage
  /\ dom = <<>>
  /\ payload = NoPayload

\* The page as first rendered; the bucket plays no part on the client.
Init ==
  /\ ClientInit
  /\ bucket = [k \in Keys |-> NoObject]
  /\ gsp = NoCall
  /\ PageInit

Next ==
  \/ ToggleEdit
  \/ Share
  \/ ClearSnapshot
  \/ OnClearError
  \/ \E r \in 1..Len(requests) : FetchRejected(r)
  \/ \E r \in 1..Len(requests), resp \in Responses : FetchResolved(r, resp)
  \/ \E r \in 1..Len(requests) : JsonResolved(r)
  \/ \E r \in 1..Len(requests) : JsonRejected(r)
  \/ \E r \in 1..Len(requests) : TextResolved(r)
  \/ \E r \in 1..Len(requests) : TextRejected(r)

Spec == Init /\ [][Next]_vars

\* The server before any render request, over any content of the bucket.
PreviewInit ==
  /\ ClientInit
  /\ bucket \in Buckets
  /\ gsp = NoCall
  /\ PageInit

PreviewNext ==
  \E preview \in BOOLEAN, previewData \in PreviewDatas, fault \in Faults \cup {NoFault} :
    GetStaticProps(preview, previewData, fault)

PreviewSpec == PreviewInit /\ [][PreviewNext]_vars

\* Home's render and the collection of the save payload, over every props
\* value and edit flag.
RenderInit == Init

RenderNext ==
  \/ \E props \in RenderProps, edit \in BOOLEAN : HomeRender(props, edit)
  \/ \E i \in 1..Len(dom), text \in TypedTexts : TypeInto(i, text)
  \/ CollectEdits

RenderSpec == RenderInit /\ [][RenderNext]_vars

\* ------------------------------------------------------------------ claims

\* The save cycles whose finally has not run.
Unfinished == {r \in 1..Len(requests) : requests[r].stage # "done"}

\* Request r's cycle completes in this step: its finally runs.
CompletesIn(r) == requests[r].stage \in Pending /\ requests'[r].stage = "done"

\* C1: at most one save request is in flight in every reachable state: a
\* share() invoked while an accepted share() has not completed issues no
\* request and starts no new cycle, so no two cycles are ever unfinished.
C1_AtMostOneInFlight ==
  /\ Cardinality(Unfinished) <= 1
  /\ Unfinished # {} => hasSaveRequest

\* C1 witness: a share() was suppressed while a request was in flight.
C1_Witness ==
  /\ lastOp = "shareSuppressed"
  /\ Cardinality(InFlight) = 1
  /\ Len(requests) = 2

\* C2 (as claimed): whatever the outcome of the save request, once its network
\* I/O has completed the guard (hasSaveRequest and the sharing flag) is
\* released. The reactions to a completion run in the completion's own task, so
\* between tasks the guard may be set only while I/O is outstanding.
C2_GuardReleased ==
  InFlight = {} => ~hasSaveRequest /\ ~isSharingView

\* An orphaned cycle keeps the guard forever: no step releases it.
OrphanedForever ==
  [][(\E r \in 1..Len(requests) : requests[r].stage = "orphaned")
       => (hasSaveRequest' /\ \E r \in 1..Len(requests') : requests'[r].stage = "orphaned")]_vars

\* C3: the number of save requests issued always equals the number of
\* accepted share() calls (one request per accepted transition into Sharing,
\* none from anywhere else).
C3_RequestsEqualAccepted == Len(requests) = accepted

\* C3 witness: two cycles were accepted and a further share() was suppressed.
C3_Witness ==
  /\ accepted = 2
  /\ lastOp = "shareSuppressed"

\* The error a failed cycle reports: new Error(text) for a non-success
\* response, the rejection of fetch otherwise.
ReportedFailure(request) ==
  IF request.stage = "text" THEN NewError(request.resp.text) ELSE NetworkError

Viewing ==
  /\ currentSnapshotId = Null
  /\ currentError = NullError
  /\ ~hasSaveRequest
  /\ ~isEdit

C6_MutuallyExclusive ==
  /\ ~(hasSaveRequest /\ currentError # NullError)
  /\ ~(hasSaveRequest /\ currentSnapshotId # Null)
  /\ ~(currentError # NullError /\ currentSnapshotId # Null)

\* The object the last call asked the bucket for.
LastRead ==
  GetObject(bucket, KeyOf(gsp.previewData.snapshotId), gsp.fault)

\* C7: with the preview flag false the decision is Normal (isPreview false, no
\* error, no contents) and the bucket is not read, whatever the preview
\* reference and the bucket hold.
C7_NoPreviewIsNormal ==
  (gsp.called /\ ~gsp.preview) =>
    /\ ~gsp.threw
    /\ ~gsp.props.isPreview
    /\ ~gsp.props.hasError
    /\ gsp.props.keys = {"isPreview"}
    /\ gsp.reads = <<>>

\* C7 witness: a non-preview render whose reference names a stored snapshot.
C7_Witness ==
  /\ gsp.called
  /\ ~gsp.preview
  /\ gsp.previewData.present
  /\ gsp.previewData.snapshotId \in SnapshotIds
  /\ bucket[KeyOf(gsp.previewData.snapshotId)].json = "array"
  /\ gsp.props.keys = {"isPreview"}

\* C8: with the preview flag true and a failed read the decision is an error,
\* never a Preview: status 403 (which a never-saved id gets) gives the
\* does-not-exist message, every other failure the connection message, and
\* the two messages differ.
C8_ReadFailureIsError ==
  (gsp.called /\ gsp.preview /\ gsp.previewData.present /\ LastRead.failed) =>
    /\ ~gsp.threw
    /\ gsp.props.hasError
    /\ ~gsp.props.isPreview
    /\ "contents" \notin gsp.props.keys
    /\ gsp.props.message =
         IF LastRead.error.hasStatusCode /\ LastRead.error.statusCode = Forbidden
           THEN "The requested preview edit does not exist!"
           ELSE MsgConnection
    /\ MsgConnection # "The requested preview edit does not exist!"

\* C8 witness: a never-saved id, read without any connection fault.
C8_Witness ==
  /\ gsp.called
  /\ gsp.preview
  /\ gsp.fault = NoFault
  /\ gsp.previewData.snapshotId \in SnapshotIds
  /\ bucket[KeyOf(gsp.previewData.snapshotId)] = NoObject
  /\ gsp.props.message = MsgNotExist

\* C9 (as claimed): every call returns a defined decision (Normal, Preview or
\* Error with a message); none raises.
C9_AlwaysADecision ==
  gsp.called =>
    /\ ~gsp.threw
    /\ "isPreview" \in gsp.props.keys
    /\ gsp.props.hasError => gsp.props.message \in {MsgNotExist, MsgConnection}

\* C10 (as claimed, for a call that has a preview reference): exactly the key
\* "<snapshotId>.json" is read; a successful read of a FieldEdit sequence gives
\* Preview with that sequence and that snapshotId; and Preview is given only
\* then.
C10_PreviewOnlyForFieldEdits ==
  (gsp.called /\ gsp.preview /\ gsp.previewData.present) =>
    /\ gsp.reads = <<ToString(gsp.previewData.snapshotId) \o ".json">>
    /\ (~LastRead.failed /\ LastRead.Body.json = "array") =>
         /\ gsp.props.isPreview
         /\ gsp.props.contents.edits = LastRead.Body.edits
         /\ gsp.props.snapshotId = gsp.previewData.snapshotId
    /\ gsp.props.isPreview =>
         /\ ~LastRead.failed
         /\ LastRead.Body.json = "array"

\* C11: contents are merged only when isPreview is true and there is no
\* error: without isPreview the edits handed to Content are the empty
\* sequence whatever props.contents holds, and with hasError the error view
\* shows props.message verbatim and Content is not rendered at all.
C11_MergeOnlyInPreview ==
  page.rendered =>
    /\ (~page.props.isPreview /\ ~page.props.hasError) =>
         /\ page.out.view = "content"
         /\ page.out.contentEdits = [kind |-> "array", edits |-> <<>>]
    /\ (page.props.isPreview /\ ~page.props.hasError) =>
         /\ page.out.view = "content"
         /\ page.out.contentEdits = page.props.contents
    /\ page.props.hasError =>
         /\ page.out.view = "error"
         /\ page.out.reason = page.props.message
         /\ page.out.contentEdits = NoContents
         /\ \A i \in 1..Len(dom) : dom[i].parentId = Undefined

\* C11 witness: props without isPreview that do hold contents, rendered as
\* the page content with no edits.
C11_Witness ==
  /\ page.rendered
  /\ ~page.props.isPreview
  /\ ~page.props.hasError
  /\ page.props.contents.edits # <<>>
  /\ page.out.view = "content"
  /\ page.out.contentEdits.edits = <<>>

\* The steps that report a failed save: catch has run.
FailureOps == {"fetchRejected", "jsonRejected", "textResolved"}

\* C12: once a failure has been reported the guard is clear and stays clear
\* until the next share(); a share() with the guard clear is accepted and
\* issues one fresh request, whatever number of cycles went before; and the
\* list of requests grows only in an accepted share() step, by one.
C12_RetryAfterFailure ==
  [][/\ ((\E r \in 1..Len(requests) : CompletesIn(r)) /\ lastOp' \in FailureOps)
          => (currentError' # NullError /\ ~hasSaveRequest')
     /\ (~hasSaveRequest /\ lastOp' # "share") => ~hasSaveRequest'
     /\ (~hasSaveRequest /\ lastOp' \in {"share", "shareSuppressed"})
          => /\ lastOp' = "share"
             /\ requests' = Append(requests, [stage |-> "fetch", resp |-> NoResponse])
     /\ requests' # requests /\ Len(requests') # Len(requests)
          => /\ lastOp' = "share"
             /\ Len(requests') = Len(requests) + 1]_vars

\* C12 witness: every request the bound allows was issued, each but the last
\* has completed, and a failure is on display while the last one is in flight.
C12_Witness ==
  /\ Len(requests) = MaxRequests
  /\ \A r \in 1..(MaxRequests - 1) : requests[r].stage = "done"
  /\ requests[MaxRequests].stage = "fetch"
  /\ currentError # NullError
  /\ currentSnapshotId = Null

\* C13 (as claimed): the payload has one entry per region of the page, in page
\* order, each pairing the region's id with its current text, and no two
\* entries carry the same id.
C13_PayloadIsAMapping ==
  (payload.collected /\ page.out.view = "content") =>
    /\ Len(payload.edits) = Len(RegionIds)
    /\ \A i \in 1..Len(payload.edits) :
         /\ payload.edits[i].id = RegionIds[i]
         /\ payload.edits[i].innerText = dom[i].innerText
    /\ \A i, j \in 1..Len(payload.edits) :
         i # j => payload.edits[i].id # payload.edits[j].id

\* The part of C13 that holds: one entry per region, in page order, with the
\* region's id and current text.
PayloadFollowsPage ==
  (payload.collected /\ page.out.view = "content") =>
    /\ Len(payload.edits) = Len(RegionIds)
    /\ \A i \in 1..Len(payload.edits) :
         /\ payload.edits[i].id = RegionIds[i]
         /\ payload.edits[i].innerText = dom[i].innerText

\* C14: leaving edit mode while a save is in flight does not cancel it: the
\* toggle leaves the requests, the guard and both dialog values alone, and a
\* cycle that completes with edit mode off still releases the guard and still
\* records the snapshot id or the error.
C14_CancelDoesNotAbort ==
  [][/\ lastOp' = "toggleEdit"
          => UNCHANGED <<requests, hasSaveRequest, isSharingView,
                         currentSnapshotId, currentError>>
     /\ \A r \in 1..Len(requests) :
          (CompletesIn(r) /\ ~isEdit) =>
            /\ ~hasSaveRequest'
            /\ ~isSharingView'
            /\ IF lastOp' = "jsonResolved"
                 THEN currentSnapshotId' = requests[r].resp.snapshotId
                 ELSE currentError' # NullError
            /\ ~isEdit']_vars

\* C14 witness: a link is shown while edit mode is off.
C14_Witness ==
  /\ ~isEdit
  /\ lastOp = "jsonResolved"
  /\ currentSnapshotId \in SnapshotIds
  /\ ~hasSaveRequest

\* C15: the guard changes only in an accepted share() (set) and in a save
\* completion (cleared); toggling edit mode, either dismissal and a suppressed
\* share() leave it alone, and a suppressed share() also leaves the edit flag,
\* the error, the snapshot id and the requests alone.
C15_GuardFrame ==
  [][/\ hasSaveRequest' # hasSaveRequest
          => \/ lastOp' = "share" /\ hasSaveRequest'
             \/ (\E r \in 1..Len(requests) : CompletesIn(r)) /\ ~hasSaveRequest'
     /\ lastOp' \in {"toggleEdit", "clearSnapshot", "onClearError", "shareSuppressed"}
          => UNCHANGED <<hasSaveRequest, isSharingView>>
     /\ lastOp' = "shareSuppressed"
          => UNCHANGED <<isEdit, currentError, currentSnapshotId, requests, accepted>>]_vars

\* C15 witness: edit mode was toggled off while the guard was set.
C15_Witness ==
  /\ lastOp = "toggleEdit"
  /\ hasSaveRequest
  /\ ~isEdit

\* C16: a returned decision never has isPreview and hasError both true:
\* Preview has isPreview, contents and snapshotId and no error; Error has
\* hasError and a message, no isPreview and no contents; Normal has neither.
C16_DecisionShapes ==
  (gsp.called /\ ~gsp.threw) =>
    /\ ~(gsp.props.isPreview /\ gsp.props.hasError)
    /\ gsp.props.isPreview =>
         /\ gsp.props.keys = {"isPreview", "snapshotId", "contents"}
         /\ gsp.props.contents # NoContents
         /\ gsp.props.snapshotId # Undefined
    /\ gsp.props.hasError =>
         /\ gsp.props.keys = {"isPreview", "hasError", "message"}
         /\ gsp.props.message # Undefined
         /\ gsp.props.contents = NoContents
    /\ (~gsp.props.isPreview /\ ~gsp.props.hasError) =>
         /\ gsp.props.keys = {"isPreview"}
         /\ ~gsp.preview

\* C16 witness: an Error decision returned for a body that is not JSON.
C16_Witness ==
  /\ gsp.called
  /\ gsp.preview
  /\ gsp.fault = NoFault
  /\ gsp.props.hasError
  /\ ~gsp.props.isPreview
  /\ gsp.previewData.snapshotId \in SnapshotIds
  /\ bucket[KeyOf(gsp.previewData.snapshotId)].json = "invalid"

\* C17: between tasks the ref and the displayed sharing flag agree.
C17_RefEqualsFlag == hasSaveRequest = isSharingView

\* C17 witness: both are set by an accepted share().
C17_Witness ==
  /\ lastOp = "share"
  /\ hasSaveRequest
  /\ isSharingView

=============================================================================
